---- MODULE Spec2Model ----
(***************************************************************************)
(* A model of notebooks/etl.py: the extract / transform / load pipeline    *)
(* over the four retail tables (products, orders, order_items, customers). *)
(*                                                                         *)
(* A table (pandas DataFrame) is a record                                  *)
(*     [cols |-> sequence of column names,                                 *)
(*      dtype |-> sequence of column dtypes ("num", "obj" or "date"),      *)
(*      rows |-> sequence of rows, a row being a sequence of cells]        *)
(* so that, as in pandas, two columns may carry the same name.             *)
(* A cell is NA (NaN / NaT / <NA>), a number, a string or a timestamp.     *)
(* Strings that the code inspects character by character (raw headers,    *)
(* text cells) are sequences of one-character strings.                     *)
(* Numbers are exact decimals m * 10^(-e); the float64 product of the      *)
(* source is modelled by the exact decimal product.                        *)
(***************************************************************************)
EXTENDS Integers, Sequences, FiniteSets, TLC

VARIABLES pc,     \* position of the run / of the function under study
          idx,    \* extract(): index of the next entry of FILES
          files,  \* the file system: path -> "missing" or a raw table
          dfs,    \* the dict of DataFrames being built / transformed
          arg,    \* the argument the function under study was called with
          store,  \* the SQLite file at DB_PATH: "absent" or its tables+indexes
          old,    \* the table names the store held when the run started
          err,    \* the exception that ended the run, or "none"
          log,    \* the calls made so far in this run, in order
          run     \* number of the current run

vars == <<pc, idx, files, dfs, arg, store, old, err, log, run>>

(***************************************************************************)
(* Bounds of the model.                                                    *)
(***************************************************************************)
MaxRows == 2      \* rows per generated input table
MaxHdrLen == 2    \* characters per generated raw header
MaxRuns == 2      \* consecutive runs of the pipeline on one store

(***************************************************************************)
(* Cells.                                                                  *)
(***************************************************************************)
NA == <<"na">>
Num(m, e) == <<"num", m, e>>
Str(s) == <<"str", s>>
Date(y, mo, d, ns) == <<"date", y, mo, d, ns>>

IsNA(c) == c[1] = "na"
IsNum(c) == c[1] = "num"
IsStr(c) == c[1] = "str"
IsDate(c) == c[1] = "date"

RECURSIVE Norm(_, _)
\* a decimal without trailing fractional zeros
Norm(m, e) == IF e > 0 /\ m % 10 = 0 THEN Norm(m \div 10, e - 1) ELSE Num(m, e)

\* float multiplication of two numeric cells (NaN propagates)
Mul(a, b) == IF IsNum(a) /\ IsNum(b) THEN Norm(a[2] * b[2], a[3] + b[3]) ELSE NA

(***************************************************************************)
(* Characters.                                                             *)
(***************************************************************************)
Digits == <<"0", "1", "2", "3", "4", "5", "6", "7", "8", "9">>
Lowers == <<"a", "b", "c", "d", "e", "f", "g", "h", "i", "j", "k", "l", "m",
            "n", "o", "p", "q", "r", "s", "t", "u", "v", "w", "x", "y", "z">>
Uppers == <<"A", "B", "C", "D", "E", "F", "G", "H", "I", "J", "K", "L", "M",
            "N", "O", "P", "Q", "R", "S", "T", "U", "V", "W", "X", "Y", "Z">>

InSeq(c, s) == \E i \in 1..Len(s) : s[i] = c
IndexOf(c, s) == CHOOSE i \in 1..Len(s) : s[i] = c

IsDigit(c) == InSeq(c, Digits)
DigitVal(c) == IndexOf(c, Digits) - 1
\* the characters str.strip() removes (those the model's alphabets contain)
Spaces == {" ", "\t"}
\* \w of the re module: letters, digits and the underscore
IsWord(c) == InSeq(c, Lowers) \/ InSeq(c, Uppers) \/ IsDigit(c) \/ c = "_"
\* str.lower() on one character
LowerOf(c) == IF InSeq(c, Uppers) THEN Lowers[IndexOf(c, Uppers)] ELSE c

RECURSIVE LStrip(_, _), RStrip(_, _)
\* drop the leading / trailing characters that belong to the set D
LStrip(s, D) == IF s # <<>> /\ Head(s) \in D THEN LStrip(Tail(s), D) ELSE s
RStrip(s, D) ==
    IF s # <<>> /\ s[Len(s)] \in D THEN RStrip(SubSeq(s, 1, Len(s) - 1), D) ELSE s

\* str.strip()
StripSpace(s) == RStrip(LStrip(s, Spaces), Spaces)
\* str.strip("_")
StripUnderscore(s) == RStrip(LStrip(s, {"_"}), {"_"})

RECURSIVE SubNonWordFrom(_, _)
\* re.sub(r"[^\w]+", "_", s); `open` tells that the previous character belonged
\* to the run being replaced
SubNonWordFrom(s, open) ==
    IF s = <<>> THEN <<>>
    ELSE IF ~IsWord(Head(s))
         THEN (IF open THEN <<>> ELSE <<"_">>) \o SubNonWordFrom(Tail(s), TRUE)
         ELSE <<Head(s)>> \o SubNonWordFrom(Tail(s), FALSE)

SubNonWord(s) == SubNonWordFrom(s, FALSE)

RECURSIVE SubUnderscoresFrom(_, _)
\* re.sub(r"__+", "_", s): every maximal run of underscores leaves one underscore
SubUnderscoresFrom(s, open) ==
    IF s = <<>> THEN <<>>
    ELSE IF Head(s) = "_"
         THEN (IF open THEN <<>> ELSE <<"_">>) \o SubUnderscoresFrom(Tail(s), TRUE)
         ELSE <<Head(s)>> \o SubUnderscoresFrom(Tail(s), FALSE)

SubUnderscores(s) == SubUnderscoresFrom(s, FALSE)

RECURSIVE Join(_)
\* the Python str made of the characters of s
Join(s) == IF s = <<>> THEN "" ELSE Head(s) \o Join(Tail(s))

\* snake(s)
snake(s) ==
    LET s1 == StripSpace(s)
        s2 == SubNonWord(s1)
        s3 == SubUnderscores(s2)
        s4 == StripUnderscore(s3)
    IN Join([i \in 1..Len(s4) |-> LowerOf(s4[i])])


(***************************************************************************)
(* Parsing of text cells.                                                  *)
(***************************************************************************)
RECURSIVE DigitsValue(_, _)
\* the integer a sequence of digits denotes, acc being the value read so far
DigitsValue(s, acc) ==
    IF s = <<>> THEN acc ELSE DigitsValue(Tail(s), 10 * acc + DigitVal(Head(s)))

AllDigits(s) == \A i \in 1..Len(s) : IsDigit(s[i])

\* the decimal literal [+-]digits[.digits] a string holds, or NA: what
\* pd.to_numeric(errors="coerce") makes of one text cell
ParseNum(chars) ==
    LET s == StripSpace(chars)
        neg == s # <<>> /\ Head(s) = "-"
        body == IF s # <<>> /\ Head(s) \in {"-", "+"} THEN Tail(s) ELSE s
        dots == {i \in 1..Len(body) : body[i] = "."}
        dot == IF dots = {} THEN Len(body) + 1 ELSE CHOOSE i \in dots : \A j \in dots : i <= j
        ip == SubSeq(body, 1, dot - 1)
        fp == SubSeq(body, dot + 1, Len(body))
        m == DigitsValue(ip \o fp, 0)
    IN IF AllDigits(ip) /\ AllDigits(fp) /\ Len(ip) + Len(fp) > 0
       THEN Norm(IF neg THEN 0 - m ELSE m, Len(fp))
       ELSE NA

IsLeap(y) == (y % 4 = 0 /\ y % 100 # 0) \/ y % 400 = 0
DaysIn(y, mo) ==
    IF mo = 2 THEN (IF IsLeap(y) THEN 29 ELSE 28)
    ELSE IF mo \in {4, 6, 9, 11} THEN 30 ELSE 31

\* a date read day first, as YYYY-DD-MM
ParseDateDayFirst(chars) ==
    LET s == StripSpace(chars)
        ok == /\ Len(s) = 10
              /\ s[5] = "-" /\ s[8] = "-"
              /\ \A i \in {1, 2, 3, 4, 6, 7, 9, 10} : IsDigit(s[i])
        y == DigitsValue(SubSeq(s, 1, 4), 0)
        d == DigitsValue(SubSeq(s, 6, 7), 0)
        mo == DigitsValue(SubSeq(s, 9, 10), 0)
    IN IF ok /\ mo \in 1..12 /\ d \in 1..DaysIn(y, mo) THEN Date(y, mo, d, 0) ELSE NA

\* the timestamp an ISO date YYYY-MM-DD denotes, or NaT: what
\* pd.to_datetime(errors="coerce") makes of one text cell
ParseDate(chars) ==
    LET s == StripSpace(chars)
        ok == /\ Len(s) = 10
              /\ s[5] = "-" /\ s[8] = "-"
              /\ \A i \in {1, 2, 3, 4, 6, 7, 9, 10} : IsDigit(s[i])
        y == DigitsValue(SubSeq(s, 1, 4), 0)
        mo == DigitsValue(SubSeq(s, 6, 7), 0)
        d == DigitsValue(SubSeq(s, 9, 10), 0)
    IN IF ok /\ mo \in 1..12 /\ d \in 1..DaysIn(y, mo) THEN Date(y, mo, d, 0) ELSE NA

\* pd.to_numeric(errors="coerce") on one cell of a column read from CSV
ToNumeric(c) ==
    CASE IsNA(c) -> NA
      [] IsNum(c) -> c
      [] IsStr(c) -> ParseNum(c[2])

\* pd.to_datetime(errors="coerce") on one cell of a column read from CSV; a
\* non-negative integer counts nanoseconds from the epoch
ToDatetime(c) ==
    CASE IsNA(c) -> NA
      [] IsStr(c) -> ParseDate(c[2])
      [] IsNum(c) /\ c[3] = 0 /\ c[2] \in 0..999 -> Date(1970, 1, 1, c[2])

(***************************************************************************)
(* DataFrames.                                                             *)
(*                                                                         *)
(* Only({e : x \in {a}}) is "LET x == a IN e" with a evaluated once: TLC   *)
(* evaluates the value of a bound variable a single time, while it may     *)
(* evaluate an operator argument at each of its uses.                      *)
(***************************************************************************)
Only(S) == CHOOSE x \in S : TRUE

Range(s) == {s[i] : i \in 1..Len(s)}
HasCol(df, c) == \E i \in 1..Len(df.cols) : df.cols[i] = c
\* position of the (first) column named c
ColIdx(df, c) == CHOOSE i \in 1..Len(df.cols) : df.cols[i] = c /\ \A j \in 1..(i - 1) : df.cols[j] # c
\* df[c] of row r
Cell(df, r, c) == df.rows[r][ColIdx(df, c)]
DtypeOf(df, c) == df.dtype[ColIdx(df, c)]
NRows(df) == Len(df.rows)

\* the names of `names` that are columns of df, in the order of `names`
Present(df, names) == SelectSeq(names, LAMBDA c : HasCol(df, c))
\* s[:1]
FirstOne(s) == IF s = <<>> THEN <<>> ELSE <<Head(s)>>

\* .str.strip() on one cell of a string column
StripCell(c) == IF IsStr(c) THEN Str(StripSpace(c[2])) ELSE c

\* the conversion `how` applied to one cell
Convert(how, c) ==
    CASE how = "obj" -> StripCell(c)
      [] how = "num" -> ToNumeric(c)
      [] how = "date" -> ToDatetime(c)

\* d with every cell of the columns at positions P converted to dtype `how`
MapCols(d, P, how) ==
    [cols |-> d.cols,
     dtype |-> [i \in 1..Len(d.cols) |-> IF i \in P THEN how ELSE d.dtype[i]],
     rows |-> [r \in 1..Len(d.rows) |->
                 [i \in 1..Len(d.cols) |->
                     IF i \in P THEN Convert(how, d.rows[r][i]) ELSE d.rows[r][i]]]]

\* clean_columns(df)
clean_columns(df) ==
    Only({[d EXCEPT !.cols = [i \in 1..Len(d.cols) |-> snake(d.cols[i])]] : d \in {df}})

\* trim_strings(df): the string columns are the object columns of the CSV reader
trim_strings(df) ==
    Only({MapCols(d, {i \in 1..Len(d.cols) : d.dtype[i] = "obj"}, "obj") : d \in {df}})

\* coerce_numeric(df, cols)
coerce_numeric(df, cols) ==
    Only({MapCols(d, {i \in 1..Len(d.cols) : d.cols[i] \in Range(cols)}, "num") : d \in {df}})

\* coerce_dates(df, cols)
coerce_dates(df, cols) ==
    Only({MapCols(d, {i \in 1..Len(d.cols) : d.cols[i] \in Range(cols)}, "date") : d \in {df}})

RECURSIVE DropDuplicatesNaN(_, _, _, _)
\* drop_duplicates() under which a missing key cell equals nothing, as NULL in SQL
DropDuplicatesNaN(rows, ks, seen, acc) ==
    IF rows = <<>> THEN acc
    ELSE LET k == [j \in 1..Len(ks) |-> Head(rows)[ks[j]]]
         IN IF k \in seen /\ \A j \in 1..Len(k) : ~IsNA(k[j])
            THEN DropDuplicatesNaN(Tail(rows), ks, seen, acc)
            ELSE DropDuplicatesNaN(Tail(rows), ks, seen \cup {k}, Append(acc, Head(rows)))

RECURSIVE DropDuplicates(_, _, _, _)
\* DataFrame.drop_duplicates(subset=<columns at positions ks>, keep="first") on
\* the rows still to visit; seen holds the keys of the rows visited
DropDuplicates(rows, ks, seen, acc) ==
    IF rows = <<>> THEN acc
    ELSE LET k == [j \in 1..Len(ks) |-> Head(rows)[ks[j]]]
         IN IF k \in seen
            THEN DropDuplicates(Tail(rows), ks, seen, acc)
            ELSE DropDuplicates(Tail(rows), ks, seen \cup {k}, Append(acc, Head(rows)))

\* dedupe() that ignores key_cols and drops only rows equal on every column
dedupeWholeRow(df, key_cols) ==
    Only({[d EXCEPT !.rows = DropDuplicates(d.rows, [i \in 1..Len(d.cols) |-> i], {}, <<>>)] :
          d \in {df}})

RECURSIVE DropDuplicatesLast(_, _, _, _)
\* drop_duplicates(keep="last") in place of keep="first"
DropDuplicatesLast(rows, ks, seen, acc) ==
    IF rows = <<>> THEN acc
    ELSE LET k == [j \in 1..Len(ks) |-> rows[Len(rows)][ks[j]]]
             front == SubSeq(rows, 1, Len(rows) - 1)
         IN IF k \in seen
            THEN DropDuplicatesLast(front, ks, seen, acc)
            ELSE DropDuplicatesLast(front, ks, seen \cup {k}, <<rows[Len(rows)]>> \o acc)

\* dedupe() keeping the last row of each key
dedupeKeepLast(df, key_cols) ==
    Only({IF k # <<>> /\ \A i \in 1..Len(k) : HasCol(d, k[i])
          THEN [d EXCEPT !.rows = DropDuplicatesLast(d.rows,
                                     [i \in 1..Len(k) |-> ColIdx(d, k[i])], {}, <<>>)]
          ELSE [d EXCEPT !.rows = DropDuplicatesLast(d.rows,
                                     [i \in 1..Len(d.cols) |-> i], {}, <<>>)] :
          d \in {df}, k \in {key_cols}})

\* dedupe(df, key_cols); key_cols = <<>> stands for None and for the empty list
dedupe(df, key_cols) ==
    Only({IF k # <<>> /\ \A i \in 1..Len(k) : HasCol(d, k[i])
          THEN [d EXCEPT !.rows = DropDuplicates(d.rows,
                                     [i \in 1..Len(k) |-> ColIdx(d, k[i])], {}, <<>>)]
          ELSE [d EXCEPT !.rows = DropDuplicates(d.rows,
                                     [i \in 1..Len(d.cols) |-> i], {}, <<>>)] :
          d \in {df}, k \in {key_cols}})

\* df with one more column, its cells given by the sequence `cells`
AddCol(df, name, dt, cells) ==
    Only({[cols |-> Append(d.cols, name),
           dtype |-> Append(d.dtype, dt),
           rows |-> [r \in 1..Len(d.rows) |-> Append(d.rows[r], cs[r])]] :
          d \in {df}, cs \in {cells}})

\* df.loc[:, names]
Select(df, names) ==
    Only({[cols |-> ns,
           dtype |-> [i \in 1..Len(ns) |-> DtypeOf(d, ns[i])],
           rows |-> [r \in 1..Len(d.rows) |->
                       [i \in 1..Len(ns) |-> d.rows[r][ColIdx(d, ns[i])]]]] :
          d \in {df}, ns \in {names}})

RECURSIVE Flatten(_)
\* the concatenation of a sequence of sequences
Flatten(ss) == IF ss = <<>> THEN <<>> ELSE Head(ss) \o Flatten(Tail(ss))

RECURSIVE Unique(_, _)
\* list(dict.fromkeys(s)): s without repetitions, first occurrences kept
Unique(s, acc) ==
    IF s = <<>> THEN acc
    ELSE Unique(Tail(s), IF Head(s) \in Range(acc) THEN acc ELSE Append(acc, Head(s)))

\* the rows of l.merge(r, how="left"): every left row, in order, paired with
\* each right row of equal key (missing keys match each other) or, when there is
\* none, with missing values; lk and rk are the positions of the key, keep the
\* positions of the right columns that are kept
MergeRows(l, r, lk, rk, keep) ==
    Flatten([a \in 1..Len(l.rows) |->
        Only({IF hits = <<>>
              THEN <<l.rows[a] \o [j \in 1..Len(keep) |-> NA]>>
              ELSE [h \in 1..Len(hits) |->
                      l.rows[a] \o [j \in 1..Len(keep) |-> hits[h][keep[j]]]] :
              hits \in {SelectSeq(r.rows, LAMBDA rr : rr[rk] = l.rows[a][lk])}})])

\* left.merge(right, on=on, how="left", suffixes=("", suffix)), both frames having
\* the column `on` with the same dtype; a right column whose name the left frame
\* has too gets the suffix
merge(left, right, on, suffix) ==
    Only({[cols |-> l.cols \o [j \in 1..Len(keep) |->
                                 IF HasCol(l, r.cols[keep[j]])
                                 THEN r.cols[keep[j]] \o suffix ELSE r.cols[keep[j]]],
           dtype |-> l.dtype \o [j \in 1..Len(keep) |-> r.dtype[keep[j]]],
           rows |-> MergeRows(l, r, ColIdx(l, on), ColIdx(r, on), keep)] :
          l \in {left}, r \in {right},
          keep \in {SelectSeq([i \in 1..Len(right.cols) |-> i],
                              LAMBDA i : right.cols[i] # on)}})

(***************************************************************************)
(* transform().                                                            *)
(***************************************************************************)
Entities == {"products", "orders", "order_items", "customers"}

numeric_candidates ==
    [products |-> <<"price", "cost", "msrp">>,
     orders |-> <<"total_amount", "subtotal", "tax", "shipping_cost", "discount">>,
     order_items |-> <<"quantity", "unit_price", "line_total", "discount">>,
     customers |-> <<>>]

date_candidates ==
    [orders |-> <<"order_date", "ship_date", "delivery_date", "created_at", "updated_at">>,
     customers |-> <<"created_at", "updated_at", "signup_date">>,
     products |-> <<"created_at", "updated_at", "release_date">>,
     order_items |-> <<"created_at", "updated_at">>]

\* the key choice with a composite key of a single column accepted
DedupKeyAnyComposite(name, df) ==
    CASE name = "customers" -> FirstOne(Present(df, <<"customer_id", "id">>))
      [] name = "products" -> FirstOne(Present(df, <<"product_id", "id">>))
      [] name = "orders" -> FirstOne(Present(df, <<"order_id", "id">>))
      [] name = "order_items" ->
            LET key == FirstOne(Present(df, <<"order_item_id", "id">>))
                sub == Present(df, <<"order_id", "product_id", "line_number">>)
            IN IF key # <<>> THEN key ELSE sub

\* the key_cols transform() passes to dedupe() for the table `name`
DedupKey(name, df) ==
    CASE name = "customers" -> FirstOne(Present(df, <<"customer_id", "id">>))
      [] name = "products" -> FirstOne(Present(df, <<"product_id", "id">>))
      [] name = "orders" -> FirstOne(Present(df, <<"order_id", "id">>))
      [] name = "order_items" ->
            LET key == FirstOne(Present(df, <<"order_item_id", "id">>))
                sub == Present(df, <<"order_id", "product_id", "line_number">>)
            IN IF key # <<>> THEN key ELSE IF Len(sub) >= 2 THEN sub ELSE <<>>

\* one pass of the loop "Apply coercions + dedupe"
CleanTable(name, df) ==
    Only({dedupe(c, DedupKey(name, c)) :
          c \in {coerce_dates(coerce_numeric(df, numeric_candidates[name]),
                              date_candidates[name])}})

\* the loop "Apply coercions + dedupe"
CleanAll(d) == [n \in DOMAIN d |-> IF n \in Entities THEN CleanTable(n, d[n]) ELSE d[n]]

\* line_total derived from unit_price alone
DeriveLineTotalUnitPrice(df) ==
    Only({IF ~HasCol(oi, "line_total") /\ HasCol(oi, "quantity") /\ HasCol(oi, "unit_price")
          THEN AddCol(oi, "line_total", "num",
                      [r \in 1..NRows(oi) |-> Cell(oi, r, "unit_price")])
          ELSE oi : oi \in {df}})

\* "derive clean totals if possible" on the order_items frame
DeriveLineTotal(df) ==
    Only({IF ~HasCol(oi, "line_total") /\ HasCol(oi, "quantity") /\ HasCol(oi, "unit_price")
          THEN AddCol(oi, "line_total", "num",
                      [r \in 1..NRows(oi) |->
                          Mul(Cell(oi, r, "quantity"), Cell(oi, r, "unit_price"))])
          ELSE oi : oi \in {df}})

\* the guard without its test that the order_items frame has the product key
FactGuardLoose(cust, ords, items, prods) ==
    /\ HasCol(ords, "customer_id") /\ HasCol(ords, "order_id")
    /\ (HasCol(items, "product_id") \/ HasCol(prods, "product_id"))

\* whether transform() enters the branch that builds the fact table
FactGuard(cust, ords, items, prods) ==
    LET cid == IF HasCol(ords, "customer_id") \/ HasCol(cust, "customer_id")
               THEN "customer_id" ELSE "None"
        oid == IF HasCol(items, "order_id") \/ HasCol(ords, "order_id")
               THEN "order_id" ELSE "None"
        pid == IF HasCol(items, "product_id") \/ HasCol(prods, "product_id")
               THEN "product_id" ELSE "None"
    IN /\ cid # "None" /\ oid # "None" /\ pid # "None"
       /\ HasCol(ords, cid) /\ HasCol(ords, oid) /\ HasCol(items, pid)

\* the join with the customers frame, made when both sides have the key
JoinCustomers(fact, cust) ==
    Only({IF HasCol(f, "customer_id") /\ HasCol(cust, "customer_id")
          THEN merge(f, cust, "customer_id", "_customer") ELSE f : f \in {fact}})

\* the join with the products frame, made when both sides have the key
JoinProducts(fact, prods) ==
    Only({IF HasCol(f, "product_id") /\ HasCol(prods, "product_id")
          THEN merge(f, prods, "product_id", "_product") ELSE f : f \in {fact}})

\* "Keep handy analytics fields if present"
Prune(fact, order_date_col) ==
    Only({Select(f, Unique(Present(f, <<"order_id", "customer_id", "product_id",
                                        "order_item_id">>)
                           \o Present(f, order_date_col)
                           \o Present(f, <<"quantity", "unit_price", "line_total",
                                           "total_amount">>)
                           \o Present(f, <<"status", "state", "city", "category",
                                           "sub_category", "brand">>), <<>>)) :
          f \in {fact}})

\* "Derive totals if still missing" on the fact frame
FactLineTotal(fact) ==
    Only({IF ~HasCol(f, "line_total") /\ HasCol(f, "quantity") /\ HasCol(f, "unit_price")
          THEN AddCol(f, "line_total", "num",
                      [r \in 1..NRows(f) |->
                          Mul(Cell(f, r, "quantity"), Cell(f, r, "unit_price"))])
          ELSE f : f \in {fact}})

\* .dt.year (k = 1), .dt.month (k = 2), .dt.day (k = 3) of one cell
DatePart(c, k) == IF IsDate(c) THEN Num(c[k + 1], 0) ELSE NA

\* the column of the k-th date part of the column c of f
DateParts(f, c, k) == [r \in 1..NRows(f) |-> DatePart(Cell(f, r, c), k)]

\* "Add simple date parts"
AddDateParts(fact, order_date_col) ==
    Only({IF order_date_col # <<>> /\ DtypeOf(f, order_date_col[1]) = "date"
          THEN AddCol(AddCol(AddCol(f, "order_year", "num", DateParts(f, order_date_col[1], 1)),
                             "order_month", "num", DateParts(f, order_date_col[1], 2)),
                      "order_day", "num", DateParts(f, order_date_col[1], 3))
          ELSE f : f \in {fact}})

\* the fact frame built from the four cleaned frames (the guard holds and the
\* order_items frame has the order key)
BuildFact(cust, ords, items, prods) ==
    AddDateParts(
        FactLineTotal(
            Prune(JoinProducts(JoinCustomers(merge(items, ords, "order_id", "_order"), cust),
                               prods),
                  Present(ords, <<"order_date">>))),
        Present(ords, <<"order_date">>))

\* the end of transform(dfs) on the cleaned frames c: the dict it leaves and the
\* exception it raises, if any.  items.merge(ords, on="order_id") raises KeyError
\* when the order_items frame has no order_id column.
FactStage(c) ==
    IF Entities \subseteq DOMAIN c
       /\ FactGuard(c["customers"], c["orders"], c["order_items"], c["products"])
    THEN IF HasCol(c["order_items"], "order_id")
         THEN [dfs |-> [n \in DOMAIN c \cup {"fact_order_items"} |->
                          IF n = "fact_order_items"
                          THEN BuildFact(c["customers"], c["orders"],
                                         c["order_items"], c["products"])
                          ELSE c[n]],
               err |-> "none"]
         ELSE [dfs |-> c, err |-> "KeyError"]
    ELSE [dfs |-> c, err |-> "none"]

\* the frames after the loop and the derivation of line_total
Cleaned(d) ==
    Only({IF "order_items" \in DOMAIN c1
          THEN [c1 EXCEPT !["order_items"] = DeriveLineTotal(c1["order_items"])]
          ELSE c1 : c1 \in {CleanAll(d)}})

\* transform(dfs)
transform(d) == Only({FactStage(c) : c \in {Cleaned(d)}})

(***************************************************************************)
(* Input tables of the model.                                              *)
(*                                                                         *)
(* A generated row is drawn from a seed <<a, b, c>>: a is a key value, b a *)
(* second key value, c a text payload; every column of a table is filled   *)
(* from one component of the seed, so that rows can agree on one column    *)
(* and differ on another.  Key columns are numeric in every table, as      *)
(* ids read from CSV are.                                                  *)
(***************************************************************************)
KeyVals == {NA, Num(1, 0), Num(2, 0)}
MinorVals == {NA, Num(1, 0)}
NoteX == Str(<<"x">>)
NoteY == Str(<<"y">>)
Notes == {NoteX, NoteY}
Seeds == KeyVals \X MinorVals \X Notes

IsoDate == Str(<<"2", "0", "2", "4", "-", "0", "1", "-", "0", "5">>)
BadDate == Str(<<"2", "0", "2", "4", "-", "0", "2", "-", "3", "0">>)

\* the cell a seed gives to a column filled from component comp
SeedCell(seed, comp) ==
    CASE comp \in {1, 2, 3} -> seed[comp]
      [] comp = 4 -> IF seed[3] = NoteX THEN Num(1, 0) ELSE Num(2, 0)
      [] comp = 5 -> IF seed[3] = NoteX THEN IsoDate ELSE BadDate

\* the dtype pd.read_csv gives a column: object as soon as one cell is text
InferDtype(rows, i) == IF \E r \in 1..Len(rows) : IsStr(rows[r][i]) THEN "obj" ELSE "num"

Frame(cols, rows) ==
    Only({[cols |-> cols, dtype |-> [i \in 1..Len(cols) |-> InferDtype(rs, i)], rows |-> rs] :
          rs \in {rows}})

\* the table with the columns spec (a sequence of <<name, component>>) and one
\* row per seed
SeedFrame(spec, seeds) ==
    Frame([i \in 1..Len(spec) |-> spec[i][1]],
          [r \in 1..Len(seeds) |-> [i \in 1..Len(spec) |-> SeedCell(seeds[r], spec[i][2])]])

SeqsUpTo(S, n) == UNION {[1..k -> S] : k \in 0..n}

\* the subsequences of spec that keep every column of `always`
SubSpecs(spec, always) ==
    {SelectSeq(spec, LAMBDA c : c[1] \in keep \cup always) :
        keep \in SUBSET {spec[i][1] : i \in 1..Len(spec)}}

ItemSpec == <<<<"order_item_id", 2>>, <<"id", 1>>, <<"order_id", 1>>, <<"product_id", 2>>,
              <<"line_number", 4>>, <<"note", 3>>>>
OrderSpec == <<<<"order_id", 1>>, <<"id", 2>>, <<"customer_id", 2>>, <<"status", 3>>,
               <<"order_date", 5>>>>
CustomerSpec == <<<<"customer_id", 1>>, <<"id", 2>>, <<"city", 3>>>>
ProductSpec == <<<<"product_id", 1>>, <<"id", 2>>, <<"category", 3>>>>

\* rows of a dimension table as found in a raw extract: keys repeat, with
\* different payloads, and some keys are missing
DimSeeds == <<<<Num(1, 0), Num(1, 0), NoteX>>, <<Num(1, 0), NA, NoteY>>,
              <<NA, Num(1, 0), NoteX>>, <<NA, NA, NoteY>>,
              <<Num(2, 0), Num(1, 0), NoteY>>, <<Num(1, 0), Num(1, 0), NoteY>>>>
ItemSeeds == <<<<Num(1, 0), Num(1, 0), NoteX>>, <<Num(1, 0), Num(1, 0), NoteY>>,
               <<Num(2, 0), NA, NoteX>>, <<NA, Num(1, 0), NoteX>>>>

Drop(spec, names) == SelectSeq(spec, LAMBDA c : c[1] \notin names)

StdItems == SeedFrame(Drop(ItemSpec, {"order_item_id", "id", "line_number"}), ItemSeeds)
StdOrders == SeedFrame(Drop(OrderSpec, {"id"}), DimSeeds)
StdCustomers == SeedFrame(Drop(CustomerSpec, {"id"}), DimSeeds)
StdProducts == SeedFrame(Drop(ProductSpec, {"id"}), DimSeeds)

Dict(c, p, o, i) == [customers |-> c, products |-> p, orders |-> o, order_items |-> i]

QtyVals == {NA, Str(<<"2">>), Str(<<"x">>)}
PriceVals == {NA, Num(999, 2), Num(3, 0)}
TotalVals == {NA, Num(5, 0)}

LineSpec == <<<<"order_id", 0>>, <<"product_id", 0>>, <<"quantity", 1>>, <<"unit_price", 2>>,
              <<"line_total", 3>>>>

\* order items whose row r has order_id r, product_id 1 and the amounts of seed r
LineFrame(spec, seeds) ==
    Frame([i \in 1..Len(spec) |-> spec[i][1]],
          [r \in 1..Len(seeds) |->
              [i \in 1..Len(spec) |->
                  CASE spec[i][1] = "order_id" -> Num(r, 0)
                    [] spec[i][1] = "product_id" -> Num(1, 0)
                    [] OTHER -> seeds[r][spec[i][2]]]])

(***************************************************************************)
(* Raw extracts: headers and text cells as the CSV files hold them.        *)
(***************************************************************************)
H_id == <<"i", "d">>
H_name == <<"n", "a", "m", "e">>
H_price == <<"p", "r", "i", "c", "e">>
H_quantity == <<"q", "u", "a", "n", "t", "i", "t", "y">>
H_unit_price == <<"u", "n", "i", "t", "_", "p", "r", "i", "c", "e">>
H_Unit_Price == <<"U", "n", "i", "t", " ", "P", "r", "i", "c", "e">>
H_order_id == <<"o", "r", "d", "e", "r", "_", "i", "d">>
H_Order_ID == <<" ", "O", "r", "d", "e", "r", " ", "I", "D">>
H_product_id == <<"p", "r", "o", "d", "u", "c", "t", "_", "i", "d">>
H_customer_id == <<"c", "u", "s", "t", "o", "m", "e", "r", "_", "i", "d">>
H_Customer_ID == <<"C", "u", "s", "t", "o", "m", "e", "r", "-", "-", "I", "D">>
H_order_date == <<"o", "r", "d", "e", "r", "_", "d", "a", "t", "e">>

Al == Str(<<"A", "l">>)
PaddedAl == Str(<<" ", "A", "l", " ">>)
Text999 == Str(<<"9", ".", "9", "9">>)

\* the four tables of the end-to-end scenario, customers keyed by `id`
ScenarioInput ==
    Dict(Frame(<<H_id, H_name>>, <<<<Num(1, 0), PaddedAl>>>>),
         Frame(<<H_product_id, H_price>>, <<<<Num(10, 0), Text999>>>>),
         Frame(<<H_order_id, H_customer_id, H_order_date>>,
               <<<<Num(100, 0), Num(1, 0), IsoDate>>>>),
         Frame(<<H_order_id, H_product_id, H_quantity, H_unit_price>>,
               <<<<Num(100, 0), Num(10, 0), Str(<<"2">>), Text999>>>>))

\* the scenario and its neighbours: other spellings of the headers, other cells
RawInputs ==
    {Dict(Frame(<<hc, H_name>>, <<<<Num(1, 0), nm>>>>),
          Frame(<<H_product_id, H_price>>, <<<<Num(10, 0), Text999>>>>),
          Frame(<<ho, H_customer_id, H_order_date>>, <<<<Num(100, 0), Num(1, 0), dt>>>>),
          Frame(<<ho, H_product_id, H_quantity, hu>>,
                <<<<Num(100, 0), Num(10, 0), q, Text999>>>>)) :
        hc \in {H_id, H_customer_id, H_Customer_ID}, nm \in {Al, PaddedAl},
        ho \in {H_order_id, H_Order_ID}, hu \in {H_unit_price, H_Unit_Price},
        dt \in {IsoDate, BadDate}, q \in QtyVals}

\* what extract() makes of one table it has read
Normalize(df) == trim_strings(clean_columns(df))

(***************************************************************************)
(* The configuration, the file system and the store.                       *)
(***************************************************************************)
\* the entries of FILES in insertion order, then the path of each: "orders"
\* is configured with the path of products.csv
FileOrder == <<"products", "orders", "order_items", "customers">>
FILES == [products |-> "products.csv", orders |-> "products.csv",
          order_items |-> "order_items.csv", customers |-> "customers.csv"]
IF_EXISTS == "replace"

EmptyDict == <<>>
\* the database file: absent, or holding tables and indexes
NoStore == [exists |-> FALSE, tables |-> EmptyDict, indexes |-> {}]
\* a path: missing, or a file holding a table
Missing == [exists |-> FALSE, data |-> [cols |-> <<>>, dtype |-> <<>>, rows |-> <<>>]]
File(df) == [exists |-> TRUE, data |-> df]

H_category == <<"C", "a", "t", "e", "g", "o", "r", "y">>

\* contents a configured path can have
ProductsFile == Frame(<<H_product_id, H_price, H_category>>,
                      <<<<Num(10, 0), Text999, NoteX>>, <<Num(10, 0), Text999, NoteY>>>>)
OrdersLikeFile == Frame(<<H_Order_ID, H_customer_id, H_product_id, H_order_date>>,
                        <<<<Num(100, 0), Num(1, 0), Num(10, 0), IsoDate>>,
                          <<Num(100, 0), Num(2, 0), Num(10, 0), BadDate>>>>)
ItemsFile == Frame(<<H_order_id, H_product_id, H_quantity, H_Unit_Price>>,
                   <<<<Num(100, 0), Num(10, 0), Str(<<"2">>), Text999>>,
                     <<Num(101, 0), Num(10, 0), Str(<<"x">>), Text999>>>>)
ItemsNoProductFile == Frame(<<H_order_id, H_quantity>>, <<<<Num(100, 0), Str(<<"2">>)>>>>)
CustomersFile == Frame(<<H_Customer_ID, H_name>>,
                       <<<<Num(1, 0), PaddedAl>>, <<Num(1, 0), Al>>>>)

FileStates ==
    {[p \in {"products.csv", "order_items.csv", "customers.csv"} |->
        CASE p = "products.csv" -> a [] p = "order_items.csv" -> b [] OTHER -> c] :
        a \in {Missing, File(ProductsFile), File(OrdersLikeFile)},
        b \in {Missing, File(ItemsFile), File(ItemsNoProductFile)},
        c \in {Missing, File(CustomersFile)}}

\* extract() without its test of the path
ExistsAlways(fs, path) == TRUE

\* os.path.exists(path)
Exists(fs, path) == fs[path].exists

\* d with d[k] = v
Put(d, k, v) == [n \in DOMAIN d \cup {k} |-> IF n = k THEN v ELSE d[n]]

\* the indexes load() asks for on `table`: those of `wanted` whose column exists
IndexesOn(d, table, wanted) ==
    IF table \in DOMAIN d
    THEN {<<w[1], table, w[2]>> : w \in {x \in wanted : HasCol(d[table], x[2])}}
    ELSE {}

IndexesFor(d) ==
    IndexesOn(d, "orders", {<<"idx_orders_order_id", "order_id">>,
                            <<"idx_orders_customer_id", "customer_id">>,
                            <<"idx_orders_order_date", "order_date">>})
    \cup IndexesOn(d, "order_items", {<<"idx_order_items_order_id", "order_id">>,
                                      <<"idx_order_items_product_id", "product_id">>})
    \cup IndexesOn(d, "fact_order_items", {<<"idx_fact_order_id", "order_id">>,
                                           <<"idx_fact_customer_id", "customer_id">>,
                                           <<"idx_fact_product_id", "product_id">>,
                                           <<"idx_fact_year", "order_year">>,
                                           <<"idx_fact_month", "order_month">>})

\* load() without the removal of the existing database file
ConnectKeep(st) == st

\* the database load() connects to: a fresh one when the file was removed or
\* never existed
Connect(st) == IF ~st.exists \/ IF_EXISTS = "replace" THEN NoStore ELSE st

\* write_df() for every table of d, then add_indexes(): to_sql(if_exists=
\* "replace") drops a table of the same name, and its indexes with it
WriteAll(db, d) ==
    [exists |-> TRUE,
     tables |-> [n \in DOMAIN db.tables \cup DOMAIN d |->
                    IF n \in DOMAIN d THEN d[n] ELSE db.tables[n]],
     indexes |-> {x \in db.indexes : x[2] \notin DOMAIN d} \cup IndexesFor(d)]

\* load(dfs, DB_PATH): the store it leaves
load(st, d) == WriteAll(Connect(st), d)

\* the calls transform() makes, in order
TransformLog(d, t) ==
    Flatten([i \in 1..Len(FileOrder) |->
                <<<<"coerce_numeric", FileOrder[i]>>, <<"coerce_dates", FileOrder[i]>>,
                  <<"dedupe", FileOrder[i]>>>>])
    \o (IF "fact_order_items" \in DOMAIN t.dfs THEN <<<<"build_fact", "fact_order_items">>>>
        ELSE <<>>)

(***************************************************************************)
(* The run: extract(), transform(), load().                                *)
(***************************************************************************)
Init ==
    /\ pc = "extract" /\ idx = 1 /\ run = 1
    /\ files \in FileStates
    /\ dfs = EmptyDict /\ arg = EmptyDict
    /\ store = NoStore /\ old = {}
    /\ err = "none" /\ log = <<>>

\* one pass of the loop of extract(): the path is missing and the run ends with
\* FileNotFoundError, or the table is read, its columns cleaned, its strings
\* trimmed
ExtractStep ==
    /\ pc = "extract"
    /\ LET name == FileOrder[idx]
           path == FILES[name]
       IN IF ~Exists(files, path)
          THEN /\ err' = "FileNotFoundError"
               /\ pc' = "failed"
               /\ log' = log \o <<<<"exists", name>>, <<"FileNotFoundError", name>>>>
               /\ UNCHANGED <<idx, dfs>>
          ELSE /\ dfs' = Put(dfs, name, Normalize(files[path].data))
               /\ log' = log \o <<<<"exists", name>>, <<"read_csv_flex", name>>,
                                  <<"clean_columns", name>>, <<"trim_strings", name>>>>
               /\ idx' = idx + 1
               /\ pc' = IF idx = Len(FileOrder) THEN "transform" ELSE "extract"
               /\ err' = err
    /\ UNCHANGED <<files, arg, store, old, run>>

\* dfs = transform(dfs)
Transform ==
    /\ pc = "transform"
    /\ \E t \in {transform(dfs)} :
          /\ dfs' = t.dfs
          /\ err' = t.err
          /\ pc' = IF t.err = "none" THEN "load" ELSE "failed"
          /\ log' = log \o TransformLog(dfs, t)
    /\ arg' = dfs
    /\ UNCHANGED <<idx, files, store, old, run>>

\* db_file = load(dfs, DB_PATH)
Load ==
    /\ pc = "load"
    /\ store' = load(store, dfs)
    /\ log' = log \o (IF store.exists /\ IF_EXISTS = "replace"
                      THEN <<<<"remove", "retail.db">>>> ELSE <<>>)
                  \o [i \in 1..Len(FileOrder) |-> <<"write_df", FileOrder[i]>>]
                  \o (IF "fact_order_items" \in DOMAIN dfs
                      THEN <<<<"write_df", "fact_order_items">>>> ELSE <<>>)
    /\ pc' = "done"
    /\ UNCHANGED <<idx, files, dfs, arg, old, err, run>>

\* the operator changes the extracts and starts the script again
Rerun ==
    /\ pc \in {"done", "failed"}
    /\ run < MaxRuns
    /\ run' = run + 1
    /\ files' \in FileStates
    /\ pc' = "extract" /\ idx' = 1
    /\ dfs' = EmptyDict /\ arg' = EmptyDict
    /\ err' = "none" /\ log' = <<>>
    /\ old' = DOMAIN store.tables
    /\ UNCHANGED store

Next == ExtractStep \/ Transform \/ Load \/ Rerun

Spec == Init /\ [][Next]_vars

(***************************************************************************)
(* transform() as a function: every input table set of the model, raw ones *)
(* being normalized first as extract() does.                               *)
(***************************************************************************)
\* every combination of join keys present / absent, the order items varying
JoinInputs ==
    \E cs \in SubSpecs(Drop(CustomerSpec, {"id"}), {"city"}),
       ps \in SubSpecs(Drop(ProductSpec, {"id"}), {"category"}),
       os \in SubSpecs(Drop(OrderSpec, {"id"}), {"status", "order_date"}),
       is \in SubSpecs(Drop(ItemSpec, {"order_item_id", "id", "line_number"}), {"note"}),
       seeds \in SeqsUpTo(KeyVals \X MinorVals \X {NoteX}, MaxRows) :
        dfs = Dict(SeedFrame(cs, DimSeeds), SeedFrame(ps, DimSeeds), SeedFrame(os, DimSeeds),
                   SeedFrame(is, seeds))

\* every choice of key columns of the order items, with every content
ItemInputs ==
    \E is \in SubSpecs(ItemSpec, {"note"}), seeds \in SeqsUpTo(Seeds, MaxRows) :
        dfs = Dict(StdCustomers, StdProducts, StdOrders, SeedFrame(is, seeds))

\* every choice of key columns of one dimension table, with every content
DimInputs ==
    \E seeds \in SeqsUpTo(Seeds, MaxRows) :
        \/ \E cs \in SubSpecs(CustomerSpec, {"city"}) :
              dfs = Dict(SeedFrame(cs, seeds), StdProducts, StdOrders, StdItems)
        \/ \E ps \in SubSpecs(ProductSpec, {"category"}) :
              dfs = Dict(StdCustomers, SeedFrame(ps, seeds), StdOrders, StdItems)
        \/ \E os \in SubSpecs(Drop(OrderSpec, {"order_date"}), {"customer_id", "status"}) :
              dfs = Dict(StdCustomers, StdProducts, SeedFrame(os, seeds), StdItems)

\* every choice of amount columns of the order items, with every content
LineInputs ==
    \E ls \in SubSpecs(LineSpec, {"order_id", "product_id"}),
       seeds \in SeqsUpTo(QtyVals \X PriceVals \X TotalVals, MaxRows) :
        dfs = Dict(StdCustomers, StdProducts, StdOrders, LineFrame(ls, seeds))

InitTransform ==
    /\ \/ pc = "normalize" /\ files \in RawInputs /\ dfs = EmptyDict
       \/ /\ pc = "transform" /\ files = EmptyDict
          /\ (JoinInputs \/ ItemInputs \/ DimInputs \/ LineInputs)
    /\ idx = 1 /\ run = 1
    /\ arg = EmptyDict
    /\ store = NoStore /\ old = {}
    /\ err = "none" /\ log = <<>>

\* clean_columns() and trim_strings() on each raw table
NormalizeAll ==
    /\ pc = "normalize"
    /\ dfs' = [n \in DOMAIN files |-> Normalize(files[n])]
    /\ pc' = "transform"
    /\ UNCHANGED <<idx, files, arg, store, old, err, log, run>>

NextTransform == NormalizeAll \/ Transform

SpecTransform == InitTransform /\ [][NextTransform]_vars

(***************************************************************************)
(* dedupe() as a function: tables of every content, with keys present,     *)
(* absent from the table, and None.                                        *)
(***************************************************************************)
KeyChoices == {<<>>, <<"id">>, <<"order_item_id">>, <<"order_id", "product_id">>,
               <<"order_id", "line_number">>, <<"product_id", "order_id", "note">>,
               <<"sku">>, <<"order_id", "sku">>}

InitDedupe ==
    /\ pc = "dedupe"
    /\ \E is \in {ItemSpec, Drop(ItemSpec, {"line_number", "order_item_id"})},
          seeds \in SeqsUpTo(Seeds, MaxRows), k \in KeyChoices :
          arg = [df |-> SeedFrame(is, seeds), key_cols |-> k]
    /\ dfs = EmptyDict /\ files = EmptyDict
    /\ idx = 1 /\ run = 1
    /\ store = NoStore /\ old = {}
    /\ err = "none" /\ log = <<>>

\* out = dedupe(df, key_cols)
Dedupe ==
    /\ pc = "dedupe"
    /\ dfs' = [out |-> dedupe(arg.df, arg.key_cols)]
    /\ pc' = "deduped"
    /\ UNCHANGED <<idx, files, arg, store, old, err, log, run>>

NextDedupe == Dedupe

SpecDedupe == InitDedupe /\ [][NextDedupe]_vars

(***************************************************************************)
(* clean_columns() as a function: the headers of a CSV file as             *)
(* pd.read_csv returns them, which are pairwise distinct.                  *)
(***************************************************************************)
HeaderChars == {"a", "A", " ", "-", "_"}
Headers == UNION {[1..k -> HeaderChars] : k \in 1..MaxHdrLen}

InitColumns ==
    /\ pc = "clean_columns"
    /\ \E h1 \in Headers, h2 \in Headers :
          arg = IF h1 = h2 THEN Frame(<<h1>>, <<>>) ELSE Frame(<<h1, h2>>, <<>>)
    /\ dfs = EmptyDict /\ files = EmptyDict
    /\ idx = 1 /\ run = 1
    /\ store = NoStore /\ old = {}
    /\ err = "none" /\ log = <<>>

\* out = clean_columns(df)
CleanColumns ==
    /\ pc = "clean_columns"
    /\ dfs' = [out |-> clean_columns(arg)]
    /\ pc' = "cleaned"
    /\ UNCHANGED <<idx, files, arg, store, old, err, log, run>>

NextColumns == CleanColumns

SpecColumns == InitColumns /\ [][NextColumns]_vars

(***************************************************************************)
(* Properties.                                                             *)
(***************************************************************************)
\* positions in df of the columns `names`
Positions(df, names) == [j \in 1..Len(names) |-> ColIdx(df, names[j])]
AllPositions(df) == [j \in 1..Len(df.cols) |-> j]
\* the cells of row i at the positions ks
KeyAt(rows, ks, i) == [j \in 1..Len(ks) |-> rows[i][ks[j]]]
\* the rows that are the first of the table with their key
FirstSeen(rows, ks) ==
    {i \in 1..Len(rows) : \A j \in 1..(i - 1) : KeyAt(rows, ks, j) # KeyAt(rows, ks, i)}
\* out is the subsequence of rows made of the rows FirstSeen, in input order
IsFirstSeenOf(out, rows, ks) ==
    /\ Len(out) = Cardinality(FirstSeen(rows, ks))
    /\ \A i \in FirstSeen(rows, ks) :
          out[Cardinality({k \in FirstSeen(rows, ks) : k <= i})] = rows[i]

KeyPresent == arg.key_cols # <<>> /\ \A i \in 1..Len(arg.key_cols) : HasCol(arg.df, arg.key_cols[i])

\* C4: dedupe(table, key) with every key column present returns exactly the
\* input rows that are the earliest with their key value, in input order, with
\* the columns unchanged: a later row with the same key is dropped whatever its
\* other cells are.
C4_FirstSeenWins ==
    (pc = "deduped" /\ KeyPresent) =>
        /\ dfs.out.cols = arg.df.cols
        /\ IsFirstSeenOf(dfs.out.rows, arg.df.rows, Positions(arg.df, arg.key_cols))

\* C4 witness: two rows with one key and different other cells went in, the
\* later one is gone.
C4_Witness ==
    /\ pc = "deduped" /\ KeyPresent
    /\ \E i, j \in 1..NRows(arg.df) :
          /\ i < j
          /\ KeyAt(arg.df.rows, Positions(arg.df, arg.key_cols), i)
               = KeyAt(arg.df.rows, Positions(arg.df, arg.key_cols), j)
          /\ arg.df.rows[i] # arg.df.rows[j]
          /\ dfs.out.rows = <<arg.df.rows[i]>>

\* C8: the column names clean_columns() returns are pairwise distinct.
C8_DistinctNames ==
    pc = "cleaned" =>
        \A i, j \in 1..Len(dfs.out.cols) : i # j => dfs.out.cols[i] # dfs.out.cols[j]

\* transform() has returned / has raised
Returned == pc = "load" /\ Entities \subseteq DOMAIN arg
HasFact == "fact_order_items" \in DOMAIN dfs

OtherCols(df, key) == {df.cols[i] : i \in 1..Len(df.cols)} \ {key}

C2_NoFanOut ==
    (Returned /\ HasFact) => NRows(dfs.fact_order_items) <= NRows(dfs.order_items)

\* C2 witness: a fact table built from an order table in which two rows carried
\* the order key of an order item.
C2_Witness ==
    /\ Returned /\ HasFact
    /\ NRows(dfs.order_items) >= 2
    /\ \E i, j \in 1..NRows(arg.orders), r \in 1..NRows(dfs.order_items) :
          /\ i < j
          /\ Cell(arg.orders, i, "order_id") = Cell(dfs.order_items, r, "order_id")
          /\ Cell(arg.orders, j, "order_id") = Cell(dfs.order_items, r, "order_id")

\* the positions of the key transform() dedupes df on, all positions without key
KeyPositions(name, df) ==
    IF DedupKey(name, df) = <<>> THEN AllPositions(df) ELSE Positions(df, DedupKey(name, df))

\* C3: after transform() no two rows of an entity's table agree on the entity's
\* discovered key, or on all columns when no key is discovered, missing key
\* cells included.
C3_KeyUnique ==
    pc \in {"load", "failed"} /\ Entities \subseteq DOMAIN arg =>
        \A n \in Entities :
            \A i, j \in 1..NRows(dfs[n]) :
                i # j => KeyAt(dfs[n].rows, KeyPositions(n, dfs[n]), i)
                           # KeyAt(dfs[n].rows, KeyPositions(n, dfs[n]), j)

\* C3 witness: an input table with two rows whose key cells were missing, of
\* which one row is left.
C3_Witness ==
    /\ Returned
    /\ \E n \in Entities :
          /\ DedupKey(n, arg[n]) # <<>>
          /\ \E i, j \in 1..NRows(arg[n]) :
                /\ i < j
                /\ \A k \in 1..Len(DedupKey(n, arg[n])) :
                      IsNA(Cell(arg[n], i, DedupKey(n, arg[n])[k]))
                       /\ IsNA(Cell(arg[n], j, DedupKey(n, arg[n])[k]))
                /\ arg[n].rows[i] # arg[n].rows[j]
          /\ NRows(dfs[n]) = 1

RECURSIVE Pow10(_)
Pow10(n) == IF n = 0 THEN 1 ELSE 10 * Pow10(n - 1)

\* t, q and p are numbers and t = q * p
IsProduct(t, q, p) ==
    /\ IsNum(t) /\ IsNum(q) /\ IsNum(p)
    /\ t[2] * Pow10(q[3] + p[3]) = q[2] * p[2] * Pow10(t[3])

\* every row of df with numeric quantity and unit_price has their product as
\* line_total
TotalsAreProducts(df) ==
    /\ HasCol(df, "line_total") /\ HasCol(df, "quantity") /\ HasCol(df, "unit_price")
    /\ \A r \in 1..NRows(df) :
          (IsNum(Cell(df, r, "quantity")) /\ IsNum(Cell(df, r, "unit_price")))
             => IsProduct(Cell(df, r, "line_total"), Cell(df, r, "quantity"),
                          Cell(df, r, "unit_price"))

\* C6: when the order-item table comes without line_total but with quantity and
\* unit_price, every order-item row and every fact row with numeric quantity
\* and unit_price has line_total = quantity * unit_price after transform(); a
\* line_total column that came with the input (as numbers) keeps its values.
C6_LineTotal ==
    Returned =>
        /\ (/\ ~HasCol(arg.order_items, "line_total")
            /\ HasCol(arg.order_items, "quantity")
            /\ HasCol(arg.order_items, "unit_price"))
              => /\ TotalsAreProducts(dfs.order_items)
                 /\ HasFact => TotalsAreProducts(dfs.fact_order_items)
        /\ (HasCol(arg.order_items, "line_total") /\ HasCol(arg.order_items, "order_id"))
              => \A r \in 1..NRows(dfs.order_items) :
                    \E i \in 1..NRows(arg.order_items) :
                       /\ Cell(arg.order_items, i, "order_id")
                            = Cell(dfs.order_items, r, "order_id")
                       /\ Cell(arg.order_items, i, "line_total")
                            = Cell(dfs.order_items, r, "line_total")

\* C6 witness: line_total was derived, from a quantity read as text, for an
\* order item and for its fact row.
C6_Witness ==
    /\ Returned /\ HasFact
    /\ ~HasCol(arg.order_items, "line_total")
    /\ HasCol(arg.order_items, "quantity") /\ HasCol(arg.order_items, "unit_price")
    /\ \E r \in 1..NRows(dfs.fact_order_items) :
          /\ IsStr(Cell(arg.order_items, r, "quantity"))
          /\ Cell(dfs.fact_order_items, r, "quantity") = Num(2, 0)
          /\ Cell(dfs.fact_order_items, r, "unit_price") = Num(999, 2)
          /\ Cell(dfs.fact_order_items, r, "line_total") = Num(1998, 2)

\* the scenario has run: its four raw tables were normalized and transformed
ScenarioDone == pc = "load" /\ files = ScenarioInput /\ HasFact

\* the one fact row of the scenario has the amounts and date parts expected
ScenarioRow(f) ==
    /\ NRows(f) = 1
    /\ HasCol(f, "line_total") /\ Cell(f, 1, "line_total") = Num(1998, 2)
    /\ HasCol(f, "order_year") /\ Cell(f, 1, "order_year") = Num(2024, 0)
    /\ HasCol(f, "order_month") /\ Cell(f, 1, "order_month") = Num(1, 0)
    /\ HasCol(f, "order_day") /\ Cell(f, 1, "order_day") = Num(5, 0)

\* C7 as stated: the scenario ends with a fact table of one row that carries
\* name = "Al", line_total = 19.98 and the date parts 2024, 1, 5.
C7_ScenarioWithName ==
    (pc = "load" /\ files = ScenarioInput) =>
        /\ HasFact
        /\ ScenarioRow(dfs.fact_order_items)
        /\ HasCol(dfs.fact_order_items, "name")
        /\ Cell(dfs.fact_order_items, 1, "name") = Al

\* C7 amended: the scenario ends with a fact table of one row with order_id 100,
\* customer_id 1, product_id 10, line_total = 19.98 and the date parts 2024, 1,
\* 5, and the fact table has no name column; the trimmed name "Al" is in the
\* customer table only.
C7_Scenario ==
    (pc = "load" /\ files = ScenarioInput) =>
        /\ HasFact
        /\ ScenarioRow(dfs.fact_order_items)
        /\ dfs.fact_order_items.cols =
              <<"order_id", "customer_id", "product_id", "order_date", "quantity",
                "unit_price", "line_total", "order_year", "order_month", "order_day">>
        /\ Cell(dfs.fact_order_items, 1, "order_id") = Num(100, 0)
        /\ Cell(dfs.fact_order_items, 1, "customer_id") = Num(1, 0)
        /\ Cell(dfs.fact_order_items, 1, "product_id") = Num(10, 0)
        /\ dfs.customers.cols = <<"id", "name">>
        /\ dfs.customers.rows = <<<<Num(1, 0), Al>>>>

\* C7 witness: the scenario has run to the end of transform().
C7_Witness == ScenarioDone /\ NRows(dfs.fact_order_items) = 1

\* the dedup key of the order-item table as the claim describes it
ClaimedItemKey(df) ==
    IF HasCol(df, "order_item_id") THEN <<"order_item_id">>
    ELSE IF HasCol(df, "id") THEN <<"id">>
    ELSE IF Cardinality({c \in {"order_id", "product_id", "line_number"} : HasCol(df, c)}) >= 2
         THEN SelectSeq(<<"order_id", "product_id", "line_number">>, LAMBDA c : HasCol(df, c))
         ELSE <<>>

\* no column of the order-item table is one transform() coerces or derives
PlainItems(df) ==
    \A i \in 1..Len(df.cols) :
        df.cols[i] \notin Range(numeric_candidates.order_items)
                          \cup Range(date_candidates.order_items)

\* C9: transform() dedupes the order-item table on order_item_id, else on id,
\* else on those of order_id, product_id, line_number that are columns when at
\* least two are, else on the whole row, keeping the first row of each key.
C9_ItemKey ==
    (pc \in {"load", "failed"} /\ Entities \subseteq DOMAIN arg /\ PlainItems(arg.order_items)) =>
        /\ dfs.order_items.cols = arg.order_items.cols
        /\ IsFirstSeenOf(dfs.order_items.rows, arg.order_items.rows,
                         IF ClaimedItemKey(arg.order_items) = <<>>
                         THEN AllPositions(arg.order_items)
                         ELSE Positions(arg.order_items, ClaimedItemKey(arg.order_items)))

\* C9 witness: of order_id, product_id, line_number the order items have
\* order_id only, and two rows with one order_id and different notes are kept.
C9_Witness ==
    /\ pc \in {"load", "failed"} /\ Entities \subseteq DOMAIN arg
    /\ arg.order_items.cols = <<"order_id", "note">>
    /\ NRows(arg.order_items) = 2
    /\ arg.order_items.rows[1][1] = arg.order_items.rows[2][1]
    /\ arg.order_items.rows[1][2] # arg.order_items.rows[2][2]
    /\ dfs.order_items.rows = arg.order_items.rows

\* the calls of the transform stage, and the write to the store
NormalizerOps == {"clean_columns", "trim_strings"}
TransformOps == {"coerce_numeric", "coerce_dates", "dedupe", "build_fact"}
\* position of an entry of FILES in its order
OrderOf(name) == CHOOSE i \in 1..Len(FileOrder) : FileOrder[i] = name
SomePathMissing == \E n \in Entities : ~files[FILES[n]].exists

\* C5 as stated: no column normalization, trimming, coercion, deduplication,
\* fact building or write happens before the missing path is detected.
C5_NothingBeforeDetection ==
    \A k \in 1..Len(log) :
        log[k][1] = "FileNotFoundError" =>
            \A j \in 1..(k - 1) :
                log[j][1] \notin NormalizerOps \cup TransformOps \cup {"write_df", "remove"}

\* C5 amended: when a configured path does not exist the run ends with the
\* missing-source error inside extract(), before transform() begins: no type
\* coercion, deduplication or fact building is applied and nothing is removed
\* from or written to the store in that run.  What has happened before the
\* detection is that the tables configured before the missing path were read,
\* their column names normalized and their strings trimmed.
C5_FailsBeforeTransform ==
    /\ SomePathMissing =>
          /\ pc \in {"extract", "failed"}
          /\ pc = "failed" => err = "FileNotFoundError"
          /\ DOMAIN store.tables = old
          /\ \A j \in 1..Len(log) : log[j][1] \notin TransformOps \cup {"write_df", "remove"}
    /\ \A k \in 1..Len(log) :
          log[k][1] = "FileNotFoundError" =>
             /\ ~files[FILES[log[k][2]]].exists
             /\ k = Len(log)
             /\ \A n \in Entities :
                   OrderOf(n) < OrderOf(log[k][2]) =>
                      /\ files[FILES[n]].exists
                      /\ \E j \in 1..(k - 1) : log[j] = <<"clean_columns", n>>
                      /\ \E j \in 1..(k - 1) : log[j] = <<"trim_strings", n>>
             /\ \A j \in 1..(k - 1) :
                   /\ log[j][1] \in {"exists", "read_csv_flex"} \cup NormalizerOps
                   /\ log[j][1] \in NormalizerOps => OrderOf(log[j][2]) < OrderOf(log[k][2])

\* C5 witness: a run that ended with the missing-source error after it had
\* normalized the columns of an earlier table.
C5_Witness ==
    /\ pc = "failed" /\ err = "FileNotFoundError"
    /\ \E j \in 1..Len(log) : log[j][1] = "clean_columns"

\* C10: when load() has completed, the store holds exactly the tables of the
\* output set of this run, whatever earlier runs left in it.
C10_FullRefresh ==
    pc = "done" => (store.exists /\ DOMAIN store.tables = DOMAIN dfs)

\* C10 witness: the store held a fact table when the run started, the run built
\* none, and load() has completed.
C10_Witness ==
    /\ pc = "done" /\ run > 1
    /\ "fact_order_items" \in old
    /\ "fact_order_items" \notin DOMAIN dfs
    /\ "fact_order_items" \notin DOMAIN store.tables

====
